---- MODULE Spec2Model ----
(***************************************************************************)
(* A model of clang-sys' support module (src/src/support.rs): locating a   *)
(* `clang` executable (Clang::find), parsing its version banner            *)
(* (parse_version) and its header search paths (parse_search_paths).       *)
(*                                                                         *)
(* Text is modelled as a sequence of one-character strings, so that the    *)
(* substring searches, splits and trims of the source are computed.        *)
(* Option<T> is modelled as a sequence: None is <<>>, Some(x) is <<x>>.    *)
(***************************************************************************)
EXTENDS Integers, Sequences, FiniteSets, TLC

VARIABLES
    vin,      \* parse_version: the pieces the banner text is built from
    vout,     \* parse_version: the value returned
    vpc,      \* parse_version: "input" before the call, "parsed" after
    din,      \* parse_search_paths: the pieces the diagnostic text is built from
    dout,     \* parse_search_paths: the outcome, a returned Vec or a panic
    dpc,      \* parse_search_paths: "input" before the call, "parsed" after
    hint,     \* Clang::find: its argument, Option<&Path>
    macos,    \* Clang::find: cfg!(target_os="macos") of the build
    fs,       \* the filesystem: the file names of each existing directory
    pc,       \* Clang::find: the statement reached
    clangPath,   \* what env::var("CLANG_PATH") returned
    helper,      \* the process `llvm-config --bindir` turned out to be
    locator,     \* the process `xcodebuild -find clang` turned out to be
    pathVar,     \* what env::var("PATH") returned
    paths,    \* Clang::find: the candidate directories collected
    idx,      \* Clang::find: the position of the loop over paths
    matched,  \* the path handed to Clang::new, if any
    exe,      \* how the executable handed to Clang::new behaves
    result,   \* the outcome of Clang::find
    globbed,  \* the patterns handed to glob::glob, in order
    ran       \* the programs run, in order

versionVars == <<vin, vout, vpc>>
pathsVars == <<din, dout, dpc>>
envVars == <<hint, macos, fs>>
findVars == <<pc, clangPath, helper, locator, pathVar, paths, idx, matched, exe,
              result, globbed, ran>>
vars == <<versionVars, pathsVars, envVars, findVars>>

\* ------------------------------------------------------------------ Option

None == <<>>
Some(x) == <<x>>

\* ------------------------------------------------------------------ idle parts

\* The state of a part that a specification does not exercise.
IdleVersion == vin = <<>> /\ vout = <<>> /\ vpc = "idle"

IdlePaths == din = <<>> /\ dout = <<>> /\ dpc = "idle"

\* ------------------------------------------------------------------ str

Drop(s, n) == SubSeq(s, n + 1, Len(s))
Take(s, n) == SubSeq(s, 1, n)

\* The smallest element of a non-empty set of integers.
Least(S) == CHOOSE x \in S : \A y \in S : x <= y

\* char::is_digit(10)
IsDigit(c) == c \in {"0", "1", "2", "3", "4", "5", "6", "7", "8", "9"}

DigitVal(c) ==
    CASE c = "0" -> 0 [] c = "1" -> 1 [] c = "2" -> 2 [] c = "3" -> 3
      [] c = "4" -> 4 [] c = "5" -> 5 [] c = "6" -> 6 [] c = "7" -> 7
      [] c = "8" -> 8 [] c = "9" -> 9

\* char::is_whitespace, on the characters the model's texts use
IsWhitespace(c) == c \in {" ", "\t", "\n", "\r"}

\* Whether pat occurs in s at the 0-based byte offset i.
MatchesAt(s, i, pat) ==
    /\ i + Len(pat) <= Len(s)
    /\ SubSeq(s, i + 1, i + Len(pat)) = pat

\* str::find: the 0-based offset of the first occurrence of pat, if any.
str_find(s, pat) ==
    LET hits == {i \in 0..Len(s) : MatchesAt(s, i, pat)}
    IN  IF hits = {} THEN None ELSE Some(Least(hits))

\* str::split_whitespace: the maximal runs of non-whitespace characters.
RECURSIVE split_whitespace(_)
split_whitespace(s) ==
    IF s = <<>> THEN <<>>
    ELSE IF IsWhitespace(Head(s)) THEN split_whitespace(Tail(s))
    ELSE LET n == CHOOSE k \in 1..Len(s) :
                      /\ \A i \in 1..k : ~IsWhitespace(s[i])
                      /\ k = Len(s) \/ IsWhitespace(s[k + 1])
         IN  <<Take(s, n)>> \o split_whitespace(Drop(s, n))

\* str::split(char): the pieces between the separators, empty ones kept.
RECURSIVE str_split(_, _)
str_split(s, sep) ==
    LET n == CHOOSE k \in 0..Len(s) :
                 /\ \A i \in 1..k : s[i] # sep
                 /\ k = Len(s) \/ s[k + 1] = sep
    IN  IF n = Len(s) THEN <<s>>
        ELSE <<Take(s, n)>> \o str_split(Drop(s, n + 1), sep)

\* Iterator::nth(k - 1), Iterator::next for the k-th call: the k-th item, if any.
nth(items, k) == IF k <= Len(items) THEN Some(items[k]) ELSE None

\* Option::unwrap_or, a mutant: the default whatever the option holds.
unwrap_or_always_default(opt, default) == default

\* Option::unwrap_or
unwrap_or(opt, default) == IF opt = None THEN default ELSE opt[1]

\* ------------------------------------------------------------------ c_int

\* The largest value of libc::c_int (i32).
C_INT_MAX == 2147483647

\* str::parse::<c_int> on unsigned text: the digits are folded with checked
\* arithmetic; a character that is no digit, or an overflow, is an error.
RECURSIVE parse_digits(_, _)
parse_digits(ds, acc) ==
    IF ds = <<>> THEN Some(acc)
    ELSE IF ~IsDigit(Head(ds)) THEN None
    ELSE LET d == DigitVal(Head(ds))
         IN  IF acc > (C_INT_MAX - d) \div 10 THEN None
             ELSE parse_digits(Tail(ds), acc * 10 + d)

str_parse(ds) == IF ds = <<>> THEN None ELSE parse_digits(ds, 0)

\* ------------------------------------------------------------------ parse_version

VersionMarker == <<"v", "e", "r", "s", "i", "o", "n", " ">>

\* The number of bytes of "version ", skipped after the marker is found.
MarkerLen == 8

\* chars().take_while(|c| c.is_digit(10)): the leading run of decimal digits.
take_while_is_digit(number) ==
    Take(number, CHOOSE k \in 0..Len(number) :
                     /\ \A i \in 1..k : IsDigit(number[i])
                     /\ k = Len(number) \/ ~IsDigit(number[k + 1]))

\* parse_version_number, a mutant: the whole segment is parsed, so that a
\* non-digit suffix is an error.
parse_version_number_whole(number) == str_parse(number)

parse_version_number(number) == str_parse(take_while_is_digit(number))

\* numbers.next().and_then(parse_version_number), for the k-th call of next.
next_number(numbers, k) ==
    IF nth(numbers, k) = None THEN None ELSE parse_version_number(nth(numbers, k)[1])

CXVersion(major, minor, subminor) ==
    [Major |-> major, Minor |-> minor, Subminor |-> subminor]

\* parse_version, applied to the standard output of `clang --version`.
parse_version(output) ==
    LET found == str_find(output, VersionMarker)
    IN  IF found = None THEN None
        ELSE
        LET start == found[1] + MarkerLen
            token == nth(split_whitespace(Drop(output, start)), 1)
        IN  IF token = None THEN None
            ELSE
            LET numbers == str_split(token[1], ".")
                major == next_number(numbers, 1)
                minor == next_number(numbers, 2)
                third == next_number(numbers, 3)
            IN  IF major = None THEN None
                ELSE IF minor = None THEN None
                ELSE Some(CXVersion(major[1], minor[1], unwrap_or(third, 0)))

\* ------------------------------------------------------------------ banners

\* The largest number of dot-separated segments after the third of a banner's
\* version token.
MaxExtraSegments == 1

BannerPrefixes ==
    { <<>>,
      <<"c", "l", "a", "n", "g">>,
      <<"c", "o", "n", "v", "e", "r", "s", "i", "o", "n", " ", "k", "i", "t">> }

BannerMiddles ==
    { <<" ">> \o VersionMarker,      \* " version "
      <<" ">> }

BannerSegments ==
    { <<>>,
      <<"0">>,
      <<"3">>,
      <<"0", "8">>,
      <<"1", "0", "s", "v", "n">>,
      <<"s", "v", "n">>,
      <<"2", "1", "4", "7", "4", "8", "3", "6", "4", "7">>,
      <<"2", "1", "4", "7", "4", "8", "3", "6", "4", "8">> }

BannerRests ==
    { <<>>,
      <<" ", "(", "t", "a", "g", "s", "/", "R", "E", "L", ")", "\n">> }

\* The segments a token may have after its third.
BannerExtraSegments ==
    { <<>>,
      <<"3">>,
      <<"2", "1", "4", "7", "4", "8", "3", "6", "4", "8">> }

SeqsUpTo(S, n) == UNION {[1..k -> S] : k \in 0..n}

\* The segment lists of a token: up to three segments, or three and some extra.
BannerTokens ==
    SeqsUpTo(BannerSegments, 3)
        \cup {a \o b : a \in [1..3 -> BannerSegments],
                       b \in SeqsUpTo(BannerExtraSegments, MaxExtraSegments)}

RECURSIVE Join(_, _)
Join(items, sep) ==
    IF items = <<>> THEN <<>>
    ELSE IF Len(items) = 1 THEN items[1]
    ELSE items[1] \o sep \o Join(Tail(items), sep)

\* The text of a banner: prefix, middle, the segments joined by dots, rest.
BannerText(b) == b.prefix \o b.middle \o Join(b.segs, <<".">>) \o b.rest

Banners ==
    [prefix : BannerPrefixes, middle : BannerMiddles,
     segs : BannerTokens, rest : BannerRests]

\* ------------------------------------------------------------------ parse_search_paths

\* "#include <...> search starts here:"
include_start ==
    <<"#", "i", "n", "c", "l", "u", "d", "e", " ", "<", ".", ".", ".", ">", " ",
      "s", "e", "a", "r", "c", "h", " ", "s", "t", "a", "r", "t", "s", " ",
      "h", "e", "r", "e", ":">>

\* "End of search list."
include_end ==
    <<"E", "n", "d", " ", "o", "f", " ", "s", "e", "a", "r", "c", "h", " ",
      "l", "i", "s", "t", ".">>

\* "(framework directory)"
framework_directory ==
    <<"(", "f", "r", "a", "m", "e", "w", "o", "r", "k", " ",
      "d", "i", "r", "e", "c", "t", "o", "r", "y", ")">>

\* str::replace, a mutant: nothing is replaced.
str_replace_nothing(s, from, to) == s

\* str::replace: every non-overlapping occurrence of from, left to right, becomes to.
RECURSIVE str_replace(_, _, _)
str_replace(s, from, to) ==
    IF s = <<>> THEN <<>>
    ELSE IF MatchesAt(s, 0, from) THEN to \o str_replace(Drop(s, Len(from)), from, to)
    ELSE <<Head(s)>> \o str_replace(Tail(s), from, to)

\* str::lines: the text is cut after each "\n"; a line loses its "\n" and then a
\* "\r" before it; text after the last "\n" is a line of its own.
RECURSIVE str_lines(_)
str_lines(s) ==
    IF s = <<>> THEN <<>>
    ELSE LET n == CHOOSE k \in 0..Len(s) :
                      /\ \A i \in 1..k : s[i] # "\n"
                      /\ k = Len(s) \/ s[k + 1] = "\n"
         IN  IF n = Len(s) THEN <<s>>
             ELSE LET line == Take(s, n)
                      bare == IF line # <<>> /\ line[Len(line)] = "\r"
                              THEN Take(line, Len(line) - 1) ELSE line
                  IN  <<bare>> \o str_lines(Drop(s, n + 1))

\* str::trim_start
trim_start(s) ==
    Drop(s, CHOOSE k \in 0..Len(s) :
                /\ \A i \in 1..k : IsWhitespace(s[i])
                /\ k = Len(s) \/ ~IsWhitespace(s[k + 1]))

\* str::trim_end
trim_end(s) ==
    Take(s, CHOOSE k \in 0..Len(s) :
                /\ \A i \in (k + 1)..Len(s) : IsWhitespace(s[i])
                /\ k = 0 \/ ~IsWhitespace(s[k]))

\* str::trim
trim(s) == trim_end(trim_start(s))

\* The filter of the lines: |l| !l.is_empty()
keeps_line(l) == l # <<>>

\* |l| Path::new(l.trim()).into(), a mutant: only the leading whitespace goes.
to_path_trim_start(l) == trim_start(l)

\* The map of the lines: |l| Path::new(l.trim()).into()
to_path(l) == trim(l)

\* .filter(..).map(..).collect() over the lines.
RECURSIVE collect_paths(_)
collect_paths(ls) ==
    IF ls = <<>> THEN <<>>
    ELSE IF keeps_line(Head(ls)) THEN <<to_path(Head(ls))>> \o collect_paths(Tail(ls))
    ELSE collect_paths(Tail(ls))

\* The outcome of a call: it returns a value, or it panics.
Returned(v) == [kind |-> "return", value |-> v]
Panicked == [kind |-> "panic", value |-> <<>>]

\* parse_search_paths, applied to the standard error of `clang -E -x <language> - -v`.
\* Both expect() calls panic on None, and so does the slice output[start..end]
\* when start > end.
parse_search_paths(output) ==
    LET found == str_find(output, include_start)
    IN  IF found = None THEN Panicked
        ELSE
        LET start == found[1] + Len(include_start)
            end == str_find(output, include_end)
        IN  IF end = None THEN Panicked
            ELSE IF start > end[1] THEN Panicked
            ELSE LET listed == str_replace(SubSeq(output, start + 1, end[1]),
                                           framework_directory, <<>>)
                 IN  Returned(collect_paths(str_lines(listed)))

\* ------------------------------------------------------------------ diagnostics

\* The largest number of lines between the two sentinels of a diagnostic text.
MaxLines == 3

DiagLines ==
    { <<>>,
      <<" ">>,
      <<" ", "/", "a">>,
      <<" ", "/", "A">>,
      <<" ", "/", "a", " ">> \o framework_directory,
      <<" ">> \o framework_directory,
      framework_directory }

\* What a diagnostic text may hold before the start sentinel's line.
DiagHeads ==
    { <<>>,
      <<"i", "g", "n", "o", "r", "i", "n", "g", " ", "/", "x", "\n">>,
      include_end \o <<"\n">> }

LineEndings == { <<"\n">>, <<"\r", "\n">> }

RECURSIVE Terminated(_, _)
Terminated(ls, eol) ==
    IF ls = <<>> THEN <<>> ELSE Head(ls) \o eol \o Terminated(Tail(ls), eol)

\* The text of a diagnostic: the head, the start sentinel's line (if any), the
\* lines, the end sentinel's line (if any).
DiagText(d) ==
    d.head
        \o (IF d.start THEN include_start \o d.eol ELSE <<>>)
        \o Terminated(d.lines, d.eol)
        \o (IF d.end THEN include_end \o d.eol ELSE <<>>)

Diags ==
    [head : DiagHeads, start : BOOLEAN, lines : SeqsUpTo(DiagLines, MaxLines),
     eol : LineEndings, end : BOOLEAN]

\* ------------------------------------------------------------------ environment

\* Result<T, E>
Ok(x) == [ok |-> TRUE, value |-> x]
Err(e) == [ok |-> FALSE, value |-> e]

\* The directories of the filesystem: "A", "B" and the current directory, which
\* the empty path names.
DirA == <<"A">>
DirB == <<"B">>
Cwd == <<>>

NameClang == <<"c", "l", "a", "n", "g">>
NameClang3 == <<"c", "l", "a", "n", "g", "-", "3">>
NameClang10 == <<"c", "l", "a", "n", "g", "-", "1", "0">>
NameClangFormat == <<"c", "l", "a", "n", "g", "-", "f", "o", "r", "m", "a", "t">>

\* What a directory may hold.
DirContents ==
    { {NameClangFormat},
      {NameClang, NameClangFormat},
      {NameClang3, NameClang10, NameClangFormat},
      {NameClang, NameClang3} }

Filesystems ==
    {f \in [{DirA, DirB, Cwd} -> DirContents \cup {{}}] :
         f[Cwd] \in {{}, {NameClang}}}

\* What env::var returns: the value, or that the variable is not set, or that
\* its value is not valid Unicode.
NotPresent == Err(<<"NotPresent">>)
NotUnicode == Err(<<"NotUnicode">>)

ClangPathReads == {NotPresent, NotUnicode, Ok(DirB \o <<"/">> \o NameClang3)}

LlvmConfigPathReads == {NotPresent, Ok(<<"m", "y", "-", "l", "l", "v", "m">>)}

\* A process that was asked for: whether it could be launched, its exit status
\* and what it wrote.
Process(launched, status, stdout, stderr) ==
    [launched |-> launched, status |-> status, stdout |-> stdout, stderr |-> stderr]

NotLaunched == Process(FALSE, 0, <<>>, <<>>)

\* `llvm-config --bindir`: not there; prints a directory and a line end; prints
\* a directory alone; fails and prints nothing.
HelperProcesses ==
    { NotLaunched,
      Process(TRUE, 0, DirA \o <<"\n">>, <<>>),
      Process(TRUE, 0, DirB, <<>>),
      Process(TRUE, 1, <<>>, <<"e", "r", "r">>) }

\* `xcodebuild -find clang`
LocatorProcesses ==
    { NotLaunched,
      Process(TRUE, 0, DirB \o <<"\n">>, <<>>),
      Process(TRUE, 0, DirA, <<>>) }

\* The largest number of directories of the PATH variable.
MaxPathEntries == 2

\* The values of PATH: directories joined by ":".
PathValues ==
    {Join(ds, <<":">>) : ds \in SeqsUpTo({DirA, DirB}, MaxPathEntries)}

PathReads == {NotPresent, NotUnicode} \cup {Ok(v) : v \in PathValues}

\* --- the executable handed to Clang::new

GoodBanner ==
    <<"c", "l", "a", "n", "g", " ">> \o VersionMarker
        \o <<"3", ".", "8", ".", "0", " ", "(", "t", "a", "g", "s", ")", "\n">>

\* "clang version 10svn"
BadBanner ==
    <<"c", "l", "a", "n", "g", " ">> \o VersionMarker \o <<"1", "0", "s", "v", "n">>

Diag(start, lines, end) ==
    DiagText([head |-> <<"i", "g", "n", "o", "r", "i", "n", "g", " ", "/", "x", "\n">>,
              start |-> start, lines |-> lines, eol |-> <<"\n">>, end |-> end])

TwoLines == << <<" ", "/", "a">>, <<" ", "/", "A", " ">> \o framework_directory >>

GoodDiag == Diag(TRUE, TwoLines, TRUE)
EmptyDiag == Diag(TRUE, <<>>, TRUE)
NoStartDiag == Diag(FALSE, TwoLines, TRUE)
NoEndDiag == Diag(TRUE, TwoLines, FALSE)

Languages == {"c", "c++", "objective-c"}

\* How an executable behaves: whether it can be launched, what `--version`
\* prints, and what `-E -x <language> - -v` writes to its standard error.
Executable(launches, banner, c, cpp, objc) ==
    [launches |-> launches, banner |-> banner,
     diag |-> [l \in Languages |->
                  IF l = "c" THEN c ELSE IF l = "c++" THEN cpp ELSE objc]]

Executables ==
    {Executable(FALSE, <<>>, <<>>, <<>>, <<>>)}
        \cup {Executable(TRUE, b, d[1], d[2], d[3]) :
                  b \in {GoodBanner, BadBanner},
                  d \in { <<GoodDiag, GoodDiag, NoStartDiag>>,
                          <<EmptyDiag, GoodDiag, GoodDiag>>,
                          <<GoodDiag, EmptyDiag, GoodDiag>>,
                          <<NoStartDiag, GoodDiag, GoodDiag>>,
                          <<GoodDiag, NoEndDiag, GoodDiag>> }}

\* ------------------------------------------------------------------ run

\* run: the output of a process that was launched, whatever its exit status,
\* and an error for one that could not be launched.
run(process) ==
    IF process.launched THEN Ok(<<process.stdout, process.stderr>>)
    ELSE Err(<<"could not run executable">>)

\* run_llvm_config: the standard output of run.
run_llvm_config(process) ==
    IF run(process).ok THEN Ok(run(process).value[1]) ELSE run(process)

\* env::var("LLVM_CONFIG_PATH").unwrap_or("llvm-config".into())
llvm_config_program(read) ==
    IF read.ok THEN read.value
    ELSE <<"l", "l", "v", "m", "-", "c", "o", "n", "f", "i", "g">>

\* ------------------------------------------------------------------ glob

\* env::consts::EXE_SUFFIX, of a build that is not for Windows.
EXE_SUFFIX == <<>>

\* format!("clang{}", env::consts::EXE_SUFFIX)
default == NameClang \o EXE_SUFFIX

\* format!("clang-[0-9]*{}", env::consts::EXE_SUFFIX): "[0-9]" and "*" stand
\* for the pattern's character class and its wildcard.
versioned == <<"c", "l", "a", "n", "g", "-", "[0-9]", "*">> \o EXE_SUFFIX

patterns == <<default, versioned>>

\* glob::Pattern::matches on a file name.
RECURSIVE pattern_matches(_, _)
pattern_matches(pattern, name) ==
    IF pattern = <<>> THEN name = <<>>
    ELSE IF Head(pattern) = "*"
         THEN \E k \in 0..Len(name) : pattern_matches(Tail(pattern), Drop(name, k))
    ELSE IF name = <<>> THEN FALSE
    ELSE IF Head(pattern) = "[0-9]"
         THEN IsDigit(Head(name)) /\ pattern_matches(Tail(pattern), Tail(name))
    ELSE Head(pattern) = Head(name) /\ pattern_matches(Tail(pattern), Tail(name))

\* The characters of the file names, in the order of their codes.
CharOrder ==
    <<"-", "0", "1", "2", "3", "4", "5", "6", "7", "8", "9",
      "a", "c", "f", "g", "l", "m", "n", "o", "r", "t">>

CharRank(c) == CHOOSE k \in 1..Len(CharOrder) : CharOrder[k] = c

\* The order of OsStr on file names: by the first character that differs, a
\* proper prefix first.
name_less(a, b) ==
    \E k \in 1..(Len(b)) :
        /\ \A j \in 1..(k - 1) : j <= Len(a) /\ a[j] = b[j]
        /\ k - 1 <= Len(a)
        /\ k > Len(a) \/ CharRank(a[k]) < CharRank(b[k])

\* The names of a set in ascending order, as glob yields a directory's entries.
RECURSIVE sorted(_)
sorted(names) ==
    IF names = {} THEN <<>>
    ELSE LET first == CHOOSE a \in names : \A b \in names \ {a} : name_less(a, b)
         IN  <<first>> \o sorted(names \ {first})

\* Path::join: the empty path joined with a name is the name alone.
path_join(directory, name) ==
    IF directory = <<>> THEN name ELSE directory \o <<"/">> \o name

\* The directory part of a joined pattern: what precedes its last "/".
pattern_directory(joined) ==
    LET slashes == {k \in 1..Len(joined) : joined[k] = "/"}
    IN  IF slashes = {} THEN <<>>
        ELSE Take(joined, (CHOOSE k \in slashes : \A j \in slashes : j <= k) - 1)

\* The file name part of a joined pattern: what follows its last "/".
pattern_file(joined) ==
    LET slashes == {k \in 1..Len(joined) : joined[k] = "/"}
    IN  IF slashes = {} THEN joined
        ELSE Drop(joined, CHOOSE k \in slashes : \A j \in slashes : j <= k)

\* glob::glob(pattern).filter_map(|p| p.ok()): the paths of the files of the
\* pattern's directory whose names match, in ascending order; none when the
\* directory does not exist.
glob(joined) ==
    LET directory == pattern_directory(joined)
        names == IF directory \in DOMAIN fs
                 THEN {n \in fs[directory] : pattern_matches(pattern_file(joined), n)}
                 ELSE {}
        found == sorted(names)
    IN  [k \in 1..Len(found) |-> path_join(directory, found[k])]

\* find: the first match of the first pattern that has one.
RECURSIVE find(_, _)
find(directory, pats) ==
    IF pats = <<>> THEN None
    ELSE LET found == glob(path_join(directory, Head(pats)))
         IN  IF found # <<>> THEN Some(found[1]) ELSE find(directory, Tail(pats))

\* The patterns find hands to glob for a directory: up to the first that matches.
RECURSIVE find_globs(_, _)
find_globs(directory, pats) ==
    IF pats = <<>> THEN <<>>
    ELSE LET joined == path_join(directory, Head(pats))
         IN  IF glob(joined) # <<>> THEN <<joined>>
             ELSE <<joined>> \o find_globs(directory, Tail(pats))

\* env::split_paths: the pieces of the value between the ":".
split_paths(value) == str_split(value, ":")

\* ------------------------------------------------------------------ Clang::new

Clang(path, version, c, cpp, objc) ==
    [path |-> path, version |-> version, c_search_paths |-> c,
     cpp_search_paths |-> cpp, objc_search_paths |-> objc]

\* The languages Clang::new asks the search paths of, in order: the third
\* query, for the Objective-C paths, asks for "c++" again.
queried == <<"c", "c++", "c++">>

\* What Clang::new parses from the outputs of an executable: parse_version of
\* its banner and parse_search_paths of the text of each query.
parsed_outputs(e) ==
    [version |-> parse_version(e.banner),
     listed |-> [k \in 1..3 |-> parse_search_paths(e.diag[queried[k]])]]

\* parsed_outputs, tabulated over the executables of the model.
ParsedOutputs == [e \in Executables |-> parsed_outputs(e)]

\* Clang::new, a mutant: an executable whose version cannot be parsed is refused.
Clang_new_needs_version(path, e) ==
    IF ~e.launches \/ ParsedOutputs[e].version = None THEN Panicked
    ELSE Returned(Clang(path, ParsedOutputs[e].version, <<>>, <<>>, <<>>))

\* Clang::new, a mutant: missing sentinels give an empty list.
Clang_new_lenient(path, e) ==
    IF ~e.launches THEN Panicked
    ELSE LET got == ParsedOutputs[e].listed
         IN  Returned(Clang(path, ParsedOutputs[e].version, got[1].value,
                            got[2].value, got[3].value))

\* Clang::new on an executable e found at path: run_clang unwraps the result of
\* run, so an executable that cannot be launched panics; so does each
\* parse_search_paths on a text without its sentinels.
Clang_new(path, e) ==
    IF ~run(Process(e.launches, 0, e.banner, <<>>)).ok THEN Panicked
    ELSE LET version == ParsedOutputs[e].version
             got == ParsedOutputs[e].listed
         IN  IF \E k \in 1..3 : got[k].kind = "panic" THEN Panicked
             ELSE Returned(Clang(path, version, got[1].value, got[2].value,
                                 got[3].value))

\* The runs of Clang::new: `--version`, then one per query, up to the first panic.
Clang_new_runs(path, e) ==
    LET run_of(k) == <<path, "-E", "-x", queried[k], "-", "-v">>
        ok(k) == ParsedOutputs[e].listed[k].kind = "return"
        last == IF ~e.launches THEN 0
                ELSE IF \E k \in 1..3 : ~ok(k)
                     THEN CHOOSE k \in 1..3 : ~ok(k) /\ \A j \in 1..(k - 1) : ok(j)
                     ELSE 3
    IN  IF ~e.launches THEN <<<<path, "--version">>>>
        ELSE <<<<path, "--version">>>> \o [k \in 1..last |-> run_of(k)]

\* ------------------------------------------------------------------ Clang::find

\* `if let Ok(path) = env::var("CLANG_PATH")`, a mutant: the variable is ignored.
override_ignored(read) == None

\* `if let Ok(path) = env::var("CLANG_PATH")`: the path the variable names.
override(read) == IF read.ok THEN Some(read.value) ELSE None

IdleFind ==
    /\ hint = None /\ macos = FALSE /\ fs = <<>>
    /\ pc = "idle" /\ clangPath = <<>> /\ helper = <<>> /\ locator = <<>>
    /\ pathVar = <<>> /\ paths = <<>> /\ idx = 0 /\ matched = None /\ exe = <<>>
    /\ result = <<>> /\ globbed = <<>> /\ ran = <<>>

Init ==
    /\ hint \in {None, Some(DirA)}
    /\ macos \in BOOLEAN
    /\ fs \in Filesystems
    /\ pc = "start"
    /\ clangPath = <<>> /\ helper = <<>> /\ locator = <<>> /\ pathVar = <<>>
    /\ paths = <<>> /\ idx = 0 /\ matched = None /\ exe = <<>>
    /\ result = <<>> /\ globbed = <<>> /\ ran = <<>>
    /\ IdleVersion /\ IdlePaths

\* if let Ok(path) = env::var("CLANG_PATH") { return Some(Clang::new(path.into())); }
ReadClangPath ==
    /\ pc = "start"
    /\ \E read \in ClangPathReads :
           /\ clangPath' = read
           /\ IF override(read) # None
              THEN matched' = override(read) /\ pc' = "new"
              ELSE matched' = matched /\ pc' = "hint"
    /\ UNCHANGED <<helper, locator, pathVar, paths, idx, exe, result, globbed, ran>>
    /\ UNCHANGED <<versionVars, pathsVars, envVars>>

\* let mut paths = vec![]; if let Some(path) = path { paths.push(path.into()); }
PushHint ==
    /\ pc = "hint"
    /\ paths' = IF hint # None THEN <<hint[1]>> ELSE <<>>
    /\ pc' = "llvm_config"
    /\ UNCHANGED <<clangPath, helper, locator, pathVar, idx, matched, exe, result,
                   globbed, ran>>
    /\ UNCHANGED <<versionVars, pathsVars, envVars>>

\* if let Ok(path) = run_llvm_config(&["--bindir"]) { paths.push(path.into()); }
RunLlvmConfig ==
    /\ pc = "llvm_config"
    /\ \E read \in LlvmConfigPathReads, process \in HelperProcesses :
           /\ helper' = process
           /\ ran' = Append(ran, <<llvm_config_program(read), "--bindir">>)
           /\ paths' = IF run_llvm_config(process).ok
                       THEN Append(paths, run_llvm_config(process).value)
                       ELSE paths
    /\ pc' = "xcodebuild"
    /\ UNCHANGED <<clangPath, locator, pathVar, idx, matched, exe, result, globbed>>
    /\ UNCHANGED <<versionVars, pathsVars, envVars>>

\* if cfg!(target_os="macos") { if let Ok((path, _)) = run("xcodebuild", ..) { .. } }
RunXcodebuild ==
    /\ pc = "xcodebuild"
    /\ IF macos
       THEN \E process \in LocatorProcesses :
                /\ locator' = process
                /\ ran' = Append(ran, <<"xcodebuild", "-find", "clang">>)
                /\ paths' = IF run(process).ok
                            THEN Append(paths, run(process).value[1])
                            ELSE paths
       ELSE UNCHANGED <<locator, ran, paths>>
    /\ pc' = "path"
    /\ UNCHANGED <<clangPath, helper, pathVar, idx, matched, exe, result, globbed>>
    /\ UNCHANGED <<versionVars, pathsVars, envVars>>

\* paths.extend(env::split_paths(&env::var("PATH").unwrap()));
ReadPath ==
    /\ pc = "path"
    /\ \E read \in PathReads :
           /\ pathVar' = read
           /\ IF read.ok
              THEN /\ paths' = paths \o split_paths(read.value)
                   /\ idx' = 1
                   /\ pc' = "search"
                   /\ result' = result
              ELSE /\ result' = Panicked
                   /\ pc' = "done"
                   /\ UNCHANGED <<paths, idx>>
    /\ UNCHANGED <<clangPath, helper, locator, matched, exe, globbed, ran>>
    /\ UNCHANGED <<versionVars, pathsVars, envVars>>

\* for path in paths { if let Some(path) = find(&path, patterns) { return ..; } } None
Search ==
    /\ pc = "search"
    /\ IF idx > Len(paths)
       THEN /\ result' = Returned(None)
            /\ pc' = "done"
            /\ UNCHANGED <<idx, matched, globbed>>
       ELSE /\ globbed' = globbed \o find_globs(paths[idx], patterns)
            /\ IF find(paths[idx], patterns) # None
               THEN matched' = find(paths[idx], patterns) /\ pc' = "new" /\ idx' = idx
               ELSE matched' = matched /\ pc' = "search" /\ idx' = idx + 1
            /\ result' = result
    /\ UNCHANGED <<clangPath, helper, locator, pathVar, paths, exe, ran>>
    /\ UNCHANGED <<versionVars, pathsVars, envVars>>

\* return Some(Clang::new(path))
Construct ==
    /\ pc = "new"
    /\ \E e \in Executables :
           /\ exe' = e
           /\ ran' = ran \o Clang_new_runs(matched[1], e)
           /\ result' = IF Clang_new(matched[1], e).kind = "panic" THEN Panicked
                        ELSE Returned(Some(Clang_new(matched[1], e).value))
    /\ pc' = "done"
    /\ UNCHANGED <<clangPath, helper, locator, pathVar, paths, idx, matched, globbed>>
    /\ UNCHANGED <<versionVars, pathsVars, envVars>>

Next ==
    \/ ReadClangPath
    \/ PushHint
    \/ RunLlvmConfig
    \/ RunXcodebuild
    \/ ReadPath
    \/ Search
    \/ Construct

Spec == Init /\ [][Next]_vars

\* ------------------------------------------------------------------ specifications of the parsers

InitVersion ==
    /\ vin \in Banners
    /\ vout = None
    /\ vpc = "input"
    /\ IdlePaths /\ IdleFind

ParseVersion ==
    /\ vpc = "input"
    /\ vout' = parse_version(BannerText(vin))
    /\ vpc' = "parsed"
    /\ UNCHANGED <<vin, pathsVars, envVars, findVars>>

NextVersion == ParseVersion

SpecVersion == InitVersion /\ [][NextVersion]_vars

InitPaths ==
    /\ din \in Diags
    /\ dout = <<>>
    /\ dpc = "input"
    /\ IdleVersion /\ IdleFind

ParseSearchPaths ==
    /\ dpc = "input"
    /\ dout' = parse_search_paths(DiagText(din))
    /\ dpc' = "parsed"
    /\ UNCHANGED <<din, versionVars, envVars, findVars>>

NextPaths == ParseSearchPaths

SpecPaths == InitPaths /\ [][NextPaths]_vars

\* ------------------------------------------------------------------ version claims

\* The decimal digits of a natural number.
RECURSIVE DigitsOf(_)
DigitsOf(n) ==
    LET last == <<CHOOSE c \in {"0", "1", "2", "3", "4", "5", "6", "7", "8", "9"} :
                      DigitVal(c) = n % 10>>
    IN  IF n < 10 THEN last ELSE DigitsOf(n \div 10) \o last

\* A digit string without its leading zeros ("0" for a string of zeros).
StripZeros(ds) ==
    LET zeros == {k \in 0..(Len(ds) - 1) : \A i \in 1..k : ds[i] = "0"}
        z == CHOOSE k \in zeros : \A j \in zeros : j <= k
    IN  SubSeq(ds, z + 1, Len(ds))

\* The digit string ds denotes the number n, whatever its magnitude.
Denotes(ds, n) == ds # <<>> /\ StripZeros(ds) = DigitsOf(n)

AllDigits(ds) == ds # <<>> /\ \A i \in 1..Len(ds) : IsDigit(ds[i])

\* ds <= es for digit strings of the same length.
SameLenLeq(ds, es) ==
    \/ ds = es
    \/ \E i \in 1..Len(ds) :
           /\ \A j \in 1..(i - 1) : ds[j] = es[j]
           /\ DigitVal(ds[i]) < DigitVal(es[i])

\* The number a digit string denotes is at most C_INT_MAX.
FitsCInt(ds) ==
    LET s == StripZeros(ds)
        m == DigitsOf(C_INT_MAX)
    IN  Len(s) < Len(m) \/ (Len(s) = Len(m) /\ SameLenLeq(s, m))

\* The banner is "<prefix> version M.m.s <rest>" with M, m, s decimal digit strings.
IsVersionForm(b) ==
    /\ b.middle = <<" ">> \o VersionMarker
    /\ Len(b.segs) = 3
    /\ \A k \in 1..3 : AllDigits(b.segs[k])
    /\ b.rest = <<>> \/ Head(b.rest) = " "

\* The marker of the banner's middle is the first "version " of its text.
MarkerIsFirst(b) ==
    \A i \in 0..Len(b.prefix) : ~MatchesAt(BannerText(b), i, VersionMarker)

ReturnsExactly(out, segs) ==
    /\ out # None
    /\ Denotes(segs[1], out[1].Major)
    /\ Denotes(segs[2], out[1].Minor)
    /\ Denotes(segs[3], out[1].Subminor)

\* C5 as stated: every banner "<prefix> version M.m.s <rest>" with decimal M, m, s
\* of any magnitude and any prefix parses to exactly {Major: M, Minor: m, Subminor: s}.
C5_AnyPrefixAnyMagnitude ==
    (vpc = "parsed" /\ IsVersionForm(vin)) => ReturnsExactly(vout, vin.segs)

\* C5 (amended): a banner "<prefix> version M.m.s <rest>" parses to exactly
\* {Major: M, Minor: m, Subminor: s} when that "version " is the first one of the
\* text and M, m and s each fit a c_int (at most 2147483647).
C5_ExactVersion ==
    (/\ vpc = "parsed"
     /\ IsVersionForm(vin)
     /\ MarkerIsFirst(vin)
     /\ \A k \in 1..3 : FitsCInt(vin.segs[k]))
        => ReturnsExactly(vout, vin.segs)

\* "clang version 2147483647.08.3 (tags/REL)" gives {2147483647, 8, 3}.
C5_Witness ==
    /\ vpc = "parsed"
    /\ vin.prefix = <<"c", "l", "a", "n", "g">>
    /\ IsVersionForm(vin)
    /\ vin.segs[1] = DigitsOf(C_INT_MAX)
    /\ vin.segs[2] = <<"0", "8">>
    /\ vin.segs[3] = <<"3">>
    /\ vin.rest # <<>>
    /\ vout = Some(CXVersion(C_INT_MAX, 8, 3))

\* --- the reference reading of a banner, by positions rather than by splitting

HasMarker(t) == \E i \in 0..Len(t) : MatchesAt(t, i, VersionMarker)

\* The text after the first marker.
AfterMarker(t) ==
    Drop(t, Least({i \in 0..Len(t) : MatchesAt(t, i, VersionMarker)}) + Len(VersionMarker))

HasToken(t) == \E i \in 1..Len(t) : ~IsWhitespace(t[i])

\* The first whitespace-delimited token of t.
FirstToken(t) ==
    LET a == Least({i \in 1..Len(t) : ~IsWhitespace(t[i])})
        b == Least({i \in a..Len(t) : i = Len(t) \/ IsWhitespace(t[i + 1])})
    IN  SubSeq(t, a, b)

DotCount(tok) == Cardinality({i \in 1..Len(tok) : tok[i] = "."})

\* The position of the j-th dot of tok: 0 for j = 0, Len(tok) + 1 past the last.
DotAt(tok, j) ==
    IF j = 0 THEN 0
    ELSE IF j > DotCount(tok) THEN Len(tok) + 1
    ELSE CHOOSE i \in 1..Len(tok) :
             /\ tok[i] = "."
             /\ Cardinality({x \in 1..i : tok[x] = "."}) = j

HasSegment(tok, k) == DotCount(tok) >= k - 1

Segment(tok, k) == SubSeq(tok, DotAt(tok, k - 1) + 1, DotAt(tok, k) - 1)

\* The leading run of decimal digits of a segment.
LeadingDigits(seg) ==
    LET runs == {n \in 0..Len(seg) : \A i \in 1..n : IsDigit(seg[i])}
    IN  SubSeq(seg, 1, CHOOSE n \in runs : \A m \in runs : m <= n)

HasNumber(tok, k) == HasSegment(tok, k) /\ LeadingDigits(Segment(tok, k)) # <<>>

HasCInt(tok, k) == HasNumber(tok, k) /\ FitsCInt(LeadingDigits(Segment(tok, k)))

\* The banner with the segments after the third removed.
FirstThree(b) == [b EXCEPT !.segs = Take(b.segs, 3)]

\* C6 as stated: None exactly when the marker, the token or the leading digits of
\* the first or second segment are missing; otherwise the leading digit runs, with
\* Subminor 0 when the third has none; later segments never matter.
C6_RequiredAndOptional ==
    vpc = "parsed" =>
        LET t == BannerText(vin)
            tok == FirstToken(AfterMarker(t))
            absent == \/ ~HasMarker(t)
                      \/ ~HasToken(AfterMarker(t))
                      \/ ~HasNumber(tok, 1)
                      \/ ~HasNumber(tok, 2)
        IN  /\ absent => vout = None
            /\ ~absent =>
                   /\ vout # None
                   /\ Denotes(LeadingDigits(Segment(tok, 1)), vout[1].Major)
                   /\ Denotes(LeadingDigits(Segment(tok, 2)), vout[1].Minor)
                   /\ IF HasNumber(tok, 3)
                      THEN Denotes(LeadingDigits(Segment(tok, 3)), vout[1].Subminor)
                      ELSE vout[1].Subminor = 0
            /\ Len(vin.segs) > 3 => vout = parse_version(BannerText(FirstThree(vin)))

\* C6 (amended): as stated, but a leading digit run whose value exceeds c_int
\* (2147483647) counts as no number: it makes the result None in the first or
\* second segment and Subminor 0 in the third.
C6_RequiredAndOptionalCInt ==
    vpc = "parsed" =>
        LET t == BannerText(vin)
            tok == FirstToken(AfterMarker(t))
            absent == \/ ~HasMarker(t)
                      \/ ~HasToken(AfterMarker(t))
                      \/ ~HasCInt(tok, 1)
                      \/ ~HasCInt(tok, 2)
        IN  /\ absent => vout = None
            /\ ~absent =>
                   /\ vout # None
                   /\ Denotes(LeadingDigits(Segment(tok, 1)), vout[1].Major)
                   /\ Denotes(LeadingDigits(Segment(tok, 2)), vout[1].Minor)
                   /\ IF HasCInt(tok, 3)
                      THEN Denotes(LeadingDigits(Segment(tok, 3)), vout[1].Subminor)
                      ELSE vout[1].Subminor = 0
            /\ Len(vin.segs) > 3 => vout = parse_version(BannerText(FirstThree(vin)))

\* "clang version 10svn.08" gives {10, 8, 0}: the suffix is ignored, Subminor defaults.
C6_Witness ==
    /\ vpc = "parsed"
    /\ vin.prefix = <<"c", "l", "a", "n", "g">>
    /\ vin.middle = <<" ">> \o VersionMarker
    /\ vin.segs = << <<"1", "0", "s", "v", "n">>, <<"0", "8">> >>
    /\ vout = Some(CXVersion(10, 8, 0))

\* "clang version 10svn" gives None: the minor component is missing.
C6_WitnessNone ==
    /\ vpc = "parsed"
    /\ vin.prefix = <<"c", "l", "a", "n", "g">>
    /\ vin.middle = <<" ">> \o VersionMarker
    /\ vin.segs = << <<"1", "0", "s", "v", "n">> >>
    /\ vin.rest = <<>>
    /\ vout = None

\* ------------------------------------------------------------------ search path claims

HasAnnotation(l) == \E i \in 0..Len(l) : MatchesAt(l, i, framework_directory)

\* A line (holding at most one annotation) with its annotation cut out.
WithoutAnnotation(l) ==
    IF ~HasAnnotation(l) THEN l
    ELSE LET i == CHOOSE j \in 0..Len(l) : MatchesAt(l, j, framework_directory)
         IN  SubSeq(l, 1, i) \o SubSeq(l, i + Len(framework_directory) + 1, Len(l))

Blank(l) == \A i \in 1..Len(l) : IsWhitespace(l[i])

\* A line from its first to its last character that is no whitespace.
Trimmed(l) ==
    IF Blank(l) THEN <<>>
    ELSE SubSeq(l, Least({i \in 1..Len(l) : ~IsWhitespace(l[i])}),
                   CHOOSE j \in 1..Len(l) :
                       /\ ~IsWhitespace(l[j])
                       /\ \A k \in (j + 1)..Len(l) : IsWhitespace(l[k]))

\* The reference of C7 on the lines the text was built from: annotations deleted,
\* empty lines dropped, the others trimmed, in order.
RECURSIVE ReferencePaths(_)
ReferencePaths(ls) ==
    IF ls = <<>> THEN <<>>
    ELSE LET l == WithoutAnnotation(Head(ls))
         IN  (IF l = <<>> THEN <<>> ELSE <<Trimmed(l)>>) \o ReferencePaths(Tail(ls))

\* The first end sentinel of the text comes after its start sentinel.
EndFollowsStart(d) ==
    \A j \in 0..Len(d.head) : ~MatchesAt(DiagText(d), j, include_end)

\* C7 as stated: on every text holding the start sentinel and, later, the end
\* sentinel, the result is the reference: the lines between them, annotations
\* deleted, empty lines dropped, each trimmed; order, duplicates and case kept.
C7_MatchesReference ==
    (dpc = "parsed" /\ din.start /\ din.end)
        => dout = Returned(ReferencePaths(din.lines))

\* C7 (amended): the same, on every text whose first end sentinel comes after its
\* first start sentinel (with an end sentinel before the start sentinel the call
\* aborts instead).
C7_MatchesReferenceFirstEnd ==
    (dpc = "parsed" /\ din.start /\ din.end /\ EndFollowsStart(din))
        => dout = Returned(ReferencePaths(din.lines))

\* " /a", " /a (framework directory)", " /A" gives "/a", "/a", "/A".
C7_Witness ==
    /\ dpc = "parsed"
    /\ din.head # <<>>
    /\ din.lines = << <<" ", "/", "a">>,
                      <<" ", "/", "a", " ">> \o framework_directory,
                      <<" ", "/", "A">> >>
    /\ dout = Returned(<< <<"/", "a">>, <<"/", "a">>, <<"/", "A">> >>)

NoOuterWhitespace(e) ==
    e = <<>> \/ (~IsWhitespace(e[1]) /\ ~IsWhitespace(e[Len(e)]))

\* C10 as stated: every entry returned is non-empty and has no leading or trailing
\* whitespace (blank lines, with or without an annotation, give no entry).
C10_EntriesNonEmpty ==
    (dpc = "parsed" /\ dout.kind = "return")
        => \A k \in 1..Len(dout.value) :
               dout.value[k] # <<>> /\ NoOuterWhitespace(dout.value[k])

\* C10 (amended): every entry returned has no leading or trailing whitespace; an
\* empty line, or one that holds only the annotation, gives no entry, but a line of
\* whitespace (once its annotation is deleted) gives an empty entry.
C10_EntriesTrimmed ==
    (dpc = "parsed" /\ dout.kind = "return")
        => /\ \A k \in 1..Len(dout.value) : NoOuterWhitespace(dout.value[k])
           /\ Cardinality({k \in 1..Len(dout.value) : dout.value[k] = <<>>})
                  = Cardinality({k \in 1..Len(din.lines) :
                                 /\ WithoutAnnotation(din.lines[k]) # <<>>
                                 /\ Blank(WithoutAnnotation(din.lines[k]))})
           /\ Len(dout.value)
                  = Cardinality({k \in 1..Len(din.lines) :
                                 WithoutAnnotation(din.lines[k]) # <<>>})

\* A line of the annotation alone gives no entry, a line of a space and the
\* annotation gives an empty entry.
C10_Witness ==
    /\ dpc = "parsed"
    /\ din.lines = << framework_directory,
                      <<" ", "/", "a", " ">> \o framework_directory,
                      <<" ">> \o framework_directory >>
    /\ dout = Returned(<< <<"/", "a">>, <<>> >>)

\* ------------------------------------------------------------------ resolution claims

\* The statements of Clang::find after which the search is over.
Searched == pc \in {"new", "done"}

\* A text up to its first line end.
FirstLine(t) ==
    SubSeq(t, 1, Least({k \in 0..Len(t) : k = Len(t) \/ t[k + 1] = "\n"}))

\* A process succeeds when it is launched and exits with status 0.
Succeeded(process) == process.launched /\ process.status = 0

HintPart == IF hint # None THEN <<hint[1]>> ELSE <<>>

\* The candidate of the helper as C9 has it: the directory it reported, when it
\* succeeded.
HelperPart == IF Succeeded(helper) THEN <<FirstLine(helper.stdout)>> ELSE <<>>

LocatorPart ==
    IF macos /\ Succeeded(locator) THEN <<FirstLine(locator.stdout)>> ELSE <<>>

PathPart == IF pathVar.ok THEN split_paths(pathVar.value) ELSE <<>>

\* The candidate directories in the order of C2.
ClaimedCandidates == HintPart \o HelperPart \o LocatorPart \o PathPart

IsVersionedName(n) ==
    /\ Len(n) > Len(NameClang) + 1
    /\ SubSeq(n, 1, Len(NameClang)) = NameClang
    /\ n[Len(NameClang) + 1] = "-"
    /\ IsDigit(n[Len(NameClang) + 2])

FilesOf(directory) == IF directory \in DOMAIN fs THEN fs[directory] ELSE {}

HasMatch(directory) ==
    \E n \in FilesOf(directory) : n = NameClang \/ IsVersionedName(n)

\* The file chosen in a directory that has a match: `clang` if it is there, and
\* otherwise the first of the versioned names.
ChosenIn(directory) ==
    IF NameClang \in FilesOf(directory) THEN path_join(directory, NameClang)
    ELSE LET vs == {n \in FilesOf(directory) : IsVersionedName(n)}
         IN  path_join(directory,
                       CHOOSE n \in vs : \A m \in vs \ {n} : name_less(n, m))

\* The first match of a list of directories.
FirstMatch(dirs) ==
    LET hits == {k \in 1..Len(dirs) : HasMatch(dirs[k])}
    IN  IF hits = {} THEN None ELSE Some(ChosenIn(dirs[Least(hits)]))

\* The search stopped at the first pattern that matched.
StoppedAtMatch ==
    /\ globbed # <<>>
    /\ glob(globbed[Len(globbed)]) # <<>>
    /\ \A k \in 1..(Len(globbed) - 1) : glob(globbed[k]) = <<>>

NoSearch == globbed = <<>> /\ paths = <<>> /\ helper = <<>> /\ locator = <<>>

\* The texts of the model's executables that lack a sentinel.
SentinelFree ==
    {t \in {GoodDiag, EmptyDiag, NoStartDiag, NoEndDiag} :
         \/ ~\E k \in 0..Len(t) : MatchesAt(t, k, include_start)
         \/ ~\E k \in 0..Len(t) : MatchesAt(t, k, include_end)}

\* An executable's text for a queried language lacks a sentinel.
LacksSentinel(e) == \E l \in {"c", "c++"} : e.diag[l] \in SentinelFree

C2_FirstMatchInOrder ==
    /\ (Searched /\ ~clangPath.ok /\ matched # None)
           => matched = FirstMatch(ClaimedCandidates) /\ StoppedAtMatch
    /\ (pc = "done" /\ ~clangPath.ok /\ result = Returned(None))
           => FirstMatch(ClaimedCandidates) = None

\* C2, over the directories as Clang::find collects them (the outputs of the
\* helper and of the locator taken whole): the executable chosen is their first
\* match, and nothing is examined after a match.
C2_FirstMatchOfCollected ==
    /\ (Searched /\ ~clangPath.ok /\ matched # None)
           => matched = FirstMatch(paths) /\ StoppedAtMatch
    /\ (pc = "done" /\ ~clangPath.ok /\ result = Returned(None))
           => FirstMatch(paths) = None

\* C3 as stated: without the override, when no candidate directory holds a match,
\* find returns None, also when PATH is empty or not set.
C3_NoneWhenNoMatch ==
    (pc = "done" /\ ~clangPath.ok /\ \A k \in 1..Len(paths) : ~HasMatch(paths[k]))
        => result = Returned(None)

\* C3, when PATH is set to valid Unicode: find returns None when no candidate
\* directory holds a match.
C3_NoneWhenNoMatchAndPath ==
    (/\ pc = "done" /\ ~clangPath.ok /\ pathVar.ok
     /\ \A k \in 1..Len(paths) : ~HasMatch(paths[k]))
        => result = Returned(None)

C8_MissingSentinelAborts ==
    (pc = "done" /\ matched # None /\ exe.launches /\ LacksSentinel(exe))
        => /\ result = Panicked
           /\ clangPath.ok \/ StoppedAtMatch

\* The hint directory matches and the C++ text has no end sentinel: find aborts.
C8_Witness ==
    /\ pc = "done"
    /\ ~clangPath.ok
    /\ matched = Some(DirA \o <<"/">> \o NameClang)
    /\ exe.launches
    /\ exe.diag["c"] = GoodDiag
    /\ exe.diag["c++"] = NoEndDiag
    /\ result = Panicked

\* C9 as stated: the helper adds a candidate only when it is launched and
\* succeeds, and then the directory it reported; otherwise it adds none and the
\* search goes on.
C9_HelperCandidate ==
    pc = "xcodebuild"
        => /\ result = <<>>
           /\ paths = HintPart \o HelperPart

\* C9, as Clang::find does it: a helper that could be launched adds its whole
\* standard output, whatever its exit status; one that could not adds nothing;
\* the search goes on.
C9_HelperOutputCollected ==
    pc = "xcodebuild"
        => /\ result = <<>>
           /\ paths = HintPart \o (IF helper.launched THEN <<helper.stdout>> ELSE <<>>)

====
